---- MODULE Spec2Model ----
(***************************************************************************)
(* The API Gateway's orchestrator layer (src/api-gateway/orchestrator.py): *)
(* the per-engine CircuitBreaker, call_engine, audit_log and the composite *)
(* pipelines.                                                              *)
(*                                                                         *)
(*   Spec      the CircuitBreaker object under any interleaving of its     *)
(*             four methods and of the passing of time.                    *)
(*   SpecCall  concurrent invocations of call_engine, sharing the          *)
(*             singleton circuit_breaker.                                  *)
(*   SpecPipe  one inbound request served by one of the six composite      *)
(*             routes, with its background audit task.                     *)
(*   SpecRoute one inbound request, its headers included, served against   *)
(*             the interface of call_engine (a call returns or raises).    *)
(***************************************************************************)
EXTENDS Integers, Sequences, FiniteSets, TLC

VARIABLES
    states,             \* CircuitBreaker._states: dict engine -> state
    failure_counts,     \* CircuitBreaker._failure_counts: dict engine -> int
    last_failure_time,  \* CircuitBreaker._last_failure_time: dict engine -> time
    now,                \* the value time.time() returns, in seconds
    ev,                 \* history: the last breaker method called, what it saw and returned
    calls,              \* per engine: how many call_engine invocations await its response
    probes,             \* history: per engine, calls admitted in HALF_OPEN since its last record_*
    last_call,          \* history: the last step of a call_engine invocation
    pipeline,           \* the composite route serving the inbound request, "none" before it
    body,               \* the fields of the request body the route branches on
    pc,                 \* where the route's handler is
    degraded,           \* the handler's local list degraded
    locals,             \* the handler's other local variables, by name
    awaiting,           \* the call_engine invocations the handler is suspended on
    gathered,           \* history: the last asyncio.gather, its calls and their completion order
    call_log,           \* history: every call_engine invocation of the request, in order
    response,           \* what the inbound request is answered with
    audit               \* where the background task _post_audit is

cbVars == <<states, failure_counts, last_failure_time>>
callVars == <<calls, probes, last_call>>
\* What the breaker's own methods never touch.
pipeVars == <<pipeline, body, pc, degraded, locals, awaiting, gathered,
              call_log, response, audit>>
nonApiVars == <<calls, probes, last_call, pipeVars>>
vars == <<states, failure_counts, last_failure_time, now, ev, calls, probes, last_call,
          pipeline, body, pc, degraded, locals, awaiting, gathered,
          call_log, response, audit>>

----------------------------------------------------------------------------
(* Bounds and program constants *)

\* CircuitBreaker.__init__ defaults, used by the singleton circuit_breaker.
failure_threshold == 5
recovery_timeout == 30

\* record_failure is not called on a key whose count already is MaxFailures.
MaxFailures == 6
\* The clock stops at MaxTime (Spec) and at CallMaxTime (SpecCall).
MaxTime == 62
CallMaxTime == 31

\* The engine keys the breaker is called with.
Engines == {"neural_network", "raw_data_store"}

\* At most MaxCalls call_engine invocations are suspended at once.
MaxCalls == 2

\* A vector search returns at most MaxPassages passages with content.
MaxPassages == 1

\* A document is cut into at most MaxChunks chunks.
MaxChunks == 1

\* The clock advances by the recovery timeout exactly, or by one second more,
\* so that elapsed times of 0, 1, recovery_timeout and recovery_timeout + 1
\* all occur.
TickSteps == {recovery_timeout, recovery_timeout + 1}

CLOSED == "closed"
OPEN == "open"
HALF_OPEN == "half_open"

----------------------------------------------------------------------------
(* Python dict operations *)

\* d.get(k, default)
DictGet(d, k, default) == IF k \in DOMAIN d THEN d[k] ELSE default

\* d[k] = v
DictSet(d, k, v) == [x \in (DOMAIN d) \cup {k} |-> IF x = k THEN v ELSE d[x]]

EmptyDict == [x \in {} |-> 0]

----------------------------------------------------------------------------
(* class CircuitBreaker. The object is the record                          *)
(* [states, failure_counts, last_failure_time]; a method that returns a    *)
(* value and may mutate the object yields [cb |-> object after, ret |-> value]. *)

CB == [states |-> states, failure_counts |-> failure_counts,
       last_failure_time |-> last_failure_time]

\* CircuitBreaker.__init__
NewBreaker == [states |-> EmptyDict, failure_counts |-> EmptyDict,
               last_failure_time |-> EmptyDict]

\* _get_state with the recovery test off by one: ">=" for ">".
get_state_at_timeout(cb, engine, t) ==
    LET state == DictGet(cb.states, engine, "closed")
        last_fail == DictGet(cb.last_failure_time, engine, 0)
    IN  IF state = "open" /\ t - last_fail >= recovery_timeout
        THEN [cb |-> [cb EXCEPT !.states = DictSet(@, engine, "half_open")],
              ret |-> "half_open"]
        ELSE [cb |-> cb, ret |-> state]

\* CircuitBreaker._get_state
get_state(cb, engine, t) ==
    LET state == DictGet(cb.states, engine, CLOSED)
        last_fail == DictGet(cb.last_failure_time, engine, 0)
    IN  IF state = OPEN /\ t - last_fail > recovery_timeout
        THEN [cb |-> [cb EXCEPT !.states = DictSet(@, engine, HALF_OPEN)],
              ret |-> HALF_OPEN]
        ELSE [cb |-> cb, ret |-> state]

\* CircuitBreaker.allow_request
allow_request(cb, engine, t) ==
    LET g == get_state(cb, engine, t)
    IN  [cb |-> g.cb,
         ret |-> IF g.ret = CLOSED THEN TRUE
                 ELSE IF g.ret = HALF_OPEN THEN TRUE
                 ELSE FALSE]

\* record_success without its second assignment: the state is left as it was.
record_success_count_only(cb, engine) ==
    [cb EXCEPT !.failure_counts = DictSet(@, engine, 0)]

\* record_success without its first assignment: the count is left as it was.
record_success_state_only(cb, engine) ==
    [cb EXCEPT !.states = DictSet(@, engine, "closed")]

\* CircuitBreaker.record_success
record_success(cb, engine) ==
    [cb EXCEPT !.failure_counts = DictSet(@, engine, 0),
               !.states = DictSet(@, engine, CLOSED)]

\* record_failure tripping one failure early.
record_failure_early(cb, engine, t) ==
    LET count == DictGet(cb.failure_counts, engine, 0) + 1
        counted == [cb EXCEPT !.failure_counts = DictSet(@, engine, count),
                              !.last_failure_time = DictSet(@, engine, t)]
    IN  IF count + 1 >= failure_threshold
        THEN [counted EXCEPT !.states = DictSet(@, engine, "open")]
        ELSE counted

\* record_failure writing back a count read before another task's failure
\* was counted: the increment of a key that already has failures is lost.
record_failure_stale(cb, engine, t) ==
    LET read == DictGet(cb.failure_counts, engine, 0)
        count == IF read > 0 THEN read ELSE 1
        counted == [cb EXCEPT !.failure_counts = DictSet(@, engine, count),
                              !.last_failure_time = DictSet(@, engine, t)]
    IN  IF count >= failure_threshold
        THEN [counted EXCEPT !.states = DictSet(@, engine, "open")]
        ELSE counted

\* record_failure keeping the time of the failure that tripped the key: a
\* failure of a key that is at the threshold already does not move the window.
record_failure_first_window(cb, engine, t) ==
    LET read == DictGet(cb.failure_counts, engine, 0)
        count == read + 1
        counted == [cb EXCEPT !.failure_counts = DictSet(@, engine, count),
                              !.last_failure_time =
                                  IF read >= failure_threshold THEN @
                                  ELSE DictSet(@, engine, t)]
    IN  IF count >= failure_threshold
        THEN [counted EXCEPT !.states = DictSet(@, engine, "open")]
        ELSE counted

\* CircuitBreaker.record_failure
record_failure(cb, engine, t) ==
    LET count == DictGet(cb.failure_counts, engine, 0) + 1
        counted == [cb EXCEPT !.failure_counts = DictSet(@, engine, count),
                              !.last_failure_time = DictSet(@, engine, t)]
    IN  IF count >= failure_threshold
        THEN [counted EXCEPT !.states = DictSet(@, engine, OPEN)]
        ELSE counted

\* CircuitBreaker.get_status: _get_state is called once for every key of
\* _states or _failure_counts; each call touches its own key only.
get_status(cb, t) ==
    LET keys == (DOMAIN cb.states) \cup (DOMAIN cb.failure_counts)
    IN  [cb |-> [cb EXCEPT !.states =
                    [k \in DOMAIN cb.states |-> get_state(cb, k, t).ret]],
         ret |-> [k \in keys |->
                    [state |-> get_state(cb, k, t).ret,
                     failures |-> DictGet(cb.failure_counts, k, 0)]]]

\* The object's fields after a method ran.
SetBreaker(cb) ==
    /\ states' = cb.states
    /\ failure_counts' = cb.failure_counts
    /\ last_failure_time' = cb.last_failure_time

\* What observers read of one key.
StateOf(engine) == DictGet(states, engine, CLOSED)
CountOf(engine) == DictGet(failure_counts, engine, 0)
LastOf(engine) == DictGet(last_failure_time, engine, 0)

----------------------------------------------------------------------------
(* Spec: the breaker's methods called in any order, at any time *)

Event(op, engine, ret) ==
    [op |-> op, key |-> engine, ret |-> ret,
     pre_state |-> StateOf(engine), pre_count |-> CountOf(engine)]

NoEvent == [op |-> "init", key |-> "-", ret |-> FALSE,
            pre_state |-> CLOSED, pre_count |-> 0]

NoNet == [kind |-> "-", status_code |-> 0, body |-> "-"]

\* No request body read yet; no response built yet.
NoHeader == "(no header)"
NoBody == [explain |-> FALSE, language |-> "-", x_trace_id |-> NoHeader,
           x_request_id |-> NoHeader, authorization |-> NoHeader]
NoResponse == [http_status |-> 0, success |-> FALSE, message |-> "-", data |-> EmptyDict]

NoGather == [calls |-> <<>>, order |-> <<>>]

NoCall == [op |-> "init", key |-> "-", net |-> NoNet,
           sent |-> FALSE, ok |-> FALSE, status |-> 0,
           pre_state |-> CLOSED, pre_count |-> 0]

\* The module as loaded: circuit_breaker = CircuitBreaker(), nothing in flight.
NoAudit == [step |-> "none", in_flight |-> FALSE, request_id |-> ""]

\* No call in flight, no request being handled.
InitIdle ==
    /\ ev = NoEvent
    /\ calls = [k \in Engines |-> 0]
    /\ probes = [k \in Engines |-> 0]
    /\ last_call = NoCall
    /\ pipeline = "none"
    /\ body = NoBody
    /\ pc = "idle"
    /\ degraded = <<>>
    /\ locals = EmptyDict
    /\ awaiting = <<>>
    /\ gathered = NoGather
    /\ call_log = <<>>
    /\ response = NoResponse
    /\ audit = NoAudit

\* circuit_breaker = CircuitBreaker() at import.
InitModule ==
    /\ states = NewBreaker.states
    /\ failure_counts = NewBreaker.failure_counts
    /\ last_failure_time = NewBreaker.last_failure_time
    /\ now = 0
    /\ InitIdle

Init == InitModule

AllowRequest(engine) ==
    LET r == allow_request(CB, engine, now)
    IN  /\ SetBreaker(r.cb)
        /\ ev' = Event("allow_request", engine, r.ret)
        /\ UNCHANGED <<now, nonApiVars>>

RecordSuccess(engine) ==
    /\ SetBreaker(record_success(CB, engine))
    /\ ev' = Event("record_success", engine, FALSE)
    /\ UNCHANGED <<now, nonApiVars>>

RecordFailure(engine) ==
    /\ CountOf(engine) < MaxFailures
    /\ SetBreaker(record_failure(CB, engine, now))
    /\ ev' = Event("record_failure", engine, FALSE)
    /\ UNCHANGED <<now, nonApiVars>>

GetStatus ==
    /\ SetBreaker(get_status(CB, now).cb)
    /\ ev' = [NoEvent EXCEPT !.op = "get_status"]
    /\ UNCHANGED <<now, nonApiVars>>

Tick ==
    /\ \E d \in TickSteps :
          /\ now + d <= MaxTime
          /\ now' = now + d
    /\ ev' = [NoEvent EXCEPT !.op = "tick"]
    /\ UNCHANGED <<cbVars, nonApiVars>>

Next ==
    \/ \E engine \in Engines : AllowRequest(engine)
    \/ \E engine \in Engines : RecordSuccess(engine)
    \/ \E engine \in Engines : RecordFailure(engine)
    \/ GetStatus
    \/ Tick

Spec == Init /\ [][Next]_vars

----------------------------------------------------------------------------
(* call_engine. A task runs it without suspending up to the HTTP request   *)
(* (call_engine_begin), is suspended while the request is in flight, and   *)
(* runs the rest without suspending once the network has answered          *)
(* (call_engine_end).                                                      *)

\* shared.config.ENGINE_URLS: the configured keys.
ENGINE_URLS ==
    {"api_gateway", "login_register", "identity", "raw_data_store", "metadata",
     "processed_metadata", "vector_database", "neural_network", "anomaly_detection",
     "chunks", "policy_fetching", "json_user_info", "analytics_warehouse",
     "dashboard_bff", "eligibility_rules", "deadline_monitoring", "simulation",
     "gov_data_sync", "trust_scoring", "speech_interface", "doc_understanding"}

\* A key ENGINE_URLS does not hold.
UnknownKey == "no_such_engine"

\* What the network does with one request: an HTTP response (its status code
\* and whether its body is empty, JSON, or bytes response.json() cannot
\* parse), httpx.ConnectError, httpx.TimeoutException, or any other exception
\* of client.request (httpx.ReadError, ...).
Responses == [kind : {"response"}, status_code : {200, 404, 500},
              body : {"empty", "json", "not_json"}]
Transport == [kind : {"connect_error", "timeout", "other_error"},
              status_code : {0}, body : {"-"}]
NetOutcomes == Responses \cup Transport

\* call_engine counting its own circuit-open rejection as one more failure.
call_engine_begin_counts_rejection(cb, engine_key, t) ==
    IF engine_key \notin ENGINE_URLS
    THEN [cb |-> cb, sent |-> FALSE, status |-> 0]
    ELSE LET a == allow_request(cb, engine_key, t)
         IN  IF ~a.ret
             THEN [cb |-> record_failure(a.cb, engine_key, t),
                   sent |-> FALSE, status |-> 503]
             ELSE [cb |-> a.cb, sent |-> TRUE, status |-> 0]

\* call_engine without the test of the circuit breaker.
call_engine_begin_unguarded(cb, engine_key, t) ==
    IF engine_key \notin ENGINE_URLS
    THEN [cb |-> cb, sent |-> FALSE, status |-> 0]
    ELSE [cb |-> cb, sent |-> TRUE, status |-> 0]

\* call_engine up to the request: [cb, sent, status]; when sent is FALSE the
\* call raised EngineCallError(status).
call_engine_begin(cb, engine_key, t) ==
    IF engine_key \notin ENGINE_URLS
    THEN [cb |-> cb, sent |-> FALSE, status |-> 0]
    ELSE LET a == allow_request(cb, engine_key, t)
         IN  IF ~a.ret
             THEN [cb |-> a.cb, sent |-> FALSE, status |-> 503]
             ELSE [cb |-> a.cb, sent |-> TRUE, status |-> 0]

\* call_engine recording success only once the status is known to be < 400.
call_engine_end_success_after_status(cb, engine_key, net, t) ==
    IF net.kind = "response"
    THEN IF net.body = "not_json"
         THEN [cb |-> record_failure(cb, engine_key, t), ok |-> FALSE, status |-> 502]
         ELSE IF net.status_code >= 400
         THEN [cb |-> cb, ok |-> FALSE, status |-> net.status_code]
         ELSE [cb |-> record_success(cb, engine_key), ok |-> TRUE,
               status |-> net.status_code]
    ELSE IF net.kind = "connect_error"
    THEN [cb |-> record_failure(cb, engine_key, t), ok |-> FALSE, status |-> 503]
    ELSE IF net.kind = "timeout"
    THEN [cb |-> record_failure(cb, engine_key, t), ok |-> FALSE, status |-> 504]
    ELSE [cb |-> record_failure(cb, engine_key, t), ok |-> FALSE, status |-> 502]

\* call_engine from the network's answer on: [cb, ok, status]; when ok is
\* FALSE the call raised EngineCallError(status).
call_engine_end(cb, engine_key, net, t) ==
    IF net.kind = "response"
    THEN LET recorded == record_success(cb, engine_key)
         IN  IF net.body = "not_json"
             THEN \* response.json() raises inside the try: except Exception
                  [cb |-> record_failure(recorded, engine_key, t),
                   ok |-> FALSE, status |-> 502]
             ELSE IF net.status_code >= 400
             THEN [cb |-> recorded, ok |-> FALSE, status |-> net.status_code]
             ELSE [cb |-> recorded, ok |-> TRUE, status |-> net.status_code]
    ELSE IF net.kind = "connect_error"
    THEN [cb |-> record_failure(cb, engine_key, t), ok |-> FALSE, status |-> 503]
    ELSE IF net.kind = "timeout"
    THEN [cb |-> record_failure(cb, engine_key, t), ok |-> FALSE, status |-> 504]
    ELSE [cb |-> record_failure(cb, engine_key, t), ok |-> FALSE, status |-> 502]

\* Whether call_engine_end calls record_failure.
RecordsFailure(net) == net.kind # "response" \/ net.body = "not_json"

----------------------------------------------------------------------------
(* SpecCall: tasks calling call_engine concurrently *)

\* The calls suspended in call_engine, over all engines.
RECURSIVE Suspended(_)
Suspended(keys) ==
    IF keys = {} THEN 0
    ELSE LET k == CHOOSE x \in keys : TRUE
         IN  calls[k] + Suspended(keys \ {k})

CallBegin(key) ==
    /\ Suspended(Engines) < MaxCalls
    /\ LET b == call_engine_begin(CB, key, now)
           asProbe == b.sent /\ get_state(CB, key, now).ret = HALF_OPEN
       IN  /\ SetBreaker(b.cb)
           /\ calls' = IF b.sent THEN [calls EXCEPT ![key] = @ + 1] ELSE calls
           /\ probes' = IF asProbe THEN [probes EXCEPT ![key] = @ + 1] ELSE probes
           /\ last_call' = [NoCall EXCEPT !.op = "begin", !.key = key,
                                          !.sent = b.sent, !.status = b.status,
                                          !.pre_state = StateOf(key),
                                          !.pre_count = CountOf(key)]
    /\ UNCHANGED <<now, ev, pipeVars>>

CallEnd(key, net) ==
    /\ calls[key] > 0
    /\ LET e == call_engine_end(CB, key, net, now)
       IN  /\ RecordsFailure(net) => CountOf(key) < MaxFailures
           /\ SetBreaker(e.cb)
           /\ calls' = [calls EXCEPT ![key] = @ - 1]
           /\ probes' = [probes EXCEPT ![key] = 0]
           /\ last_call' = [NoCall EXCEPT !.op = "end", !.key = key,
                                          !.net = net, !.sent = TRUE,
                                          !.ok = e.ok, !.status = e.status,
                                          !.pre_state = StateOf(key),
                                          !.pre_count = CountOf(key)]
    /\ UNCHANGED <<now, ev, pipeVars>>

\* GET /circuit-breaker/status
CircuitBreakerStatus ==
    /\ SetBreaker(get_status(CB, now).cb)
    /\ last_call' = [NoCall EXCEPT !.op = "status"]
    /\ UNCHANGED <<now, ev, calls, probes, pipeVars>>

CallTick ==
    /\ \E d \in TickSteps :
          /\ now + d <= CallMaxTime
          /\ now' = now + d
    /\ last_call' = [NoCall EXCEPT !.op = "tick"]
    /\ UNCHANGED <<cbVars, ev, calls, probes, pipeVars>>

NextCall ==
    \/ \E key \in Engines \cup {UnknownKey} : CallBegin(key)
    \/ \E key \in Engines, net \in NetOutcomes : CallEnd(key, net)
    \/ CircuitBreakerStatus
    \/ CallTick

SpecCall == InitModule /\ [][NextCall]_vars

----------------------------------------------------------------------------
(* The composite routes. A route's handler is the record                   *)
(* [pc, degraded, locals, response]: pc names the step whose call_engine   *)
(* invocations are issued next, "audit" the call of audit_log and the      *)
(* return that follows it, "returned" the end of the handler.              *)

\* What the network does with a request of a route: as in NetOutcomes, with
\* one status code per class and bodies that are not empty.
PipeNet == {n \in NetOutcomes :
               /\ n.kind # "other_error"
               /\ n.status_code # 500
               /\ n.body # "empty"
               /\ (n.body = "not_json" => n.status_code = 200)}

\* str(uuid.uuid4())
GeneratedId == "generated-uuid"

\* request.headers.get(name): None and "" are both passed over by "or".
HeaderGiven(value) == value \notin {NoHeader, ""}

\* add_trace_id, before call_next: the id kept in request.state.
trace_id_of(req) ==
    IF HeaderGiven(req.x_trace_id) THEN req.x_trace_id
    ELSE IF HeaderGiven(req.x_request_id) THEN req.x_request_id
    ELSE GeneratedId

\* add_trace_id, after call_next: the id put on the response.
add_trace_id(resp, trace_id) == DictSet(resp, "x_trace_id", trace_id)

\* call_engine generating an id of its own for the request it makes.
x_request_id_fresh(request_id) == "another-uuid"

\* headers = {..., "X-Request-ID": request_id} of call_engine
x_request_id(request_id) == request_id

\* The names of the headers call_engine puts on its request.
headers == {"Content-Type", "X-Request-ID"}

Handler == [pc |-> pc, degraded |-> degraded, locals |-> locals, response |-> response]

\* A step resetting the list to its own name instead of appending to it.
append_replacing(h, name) == [h EXCEPT !.degraded = <<name>>]

\* degraded.append(name)
append(h, name) == [h EXCEPT !.degraded = Append(@, name)]

\* name = value
assign(h, name, value) == [h EXCEPT !.locals = DictSet(@, name, value)]

\* Control passes to the step label.
goto(h, label) == [h EXCEPT !.pc = label]

\* Python's None, and a value that is not None (a list that is not None
\* may be empty).
None == <<>>
Some(x) == <<x>>

\* "x if x else None" for a list x
ListOrNone(x) == IF x = <<>> THEN None ELSE Some(x)

\* "x if x else None" for the result of an engine ("{}" is the empty dict)
DictOrNone(x) == IF x = "{}" THEN None ELSE Some(x)

\* The default whatever the status of the failure.
status_or_default_only(status, default) == default

\* "e.status or default"
status_or(status, default) == IF status = 0 THEN default ELSE status

\* return ApiResponse(success=..., message=..., data=...): HTTP 200
ApiResponse(success, message, data) ==
    [http_status |-> 200, success |-> success, message |-> message, data |-> data]

\* raise HTTPException(status_code=...), as global_exception_handler answers it
HTTPException(status_code) ==
    [http_status |-> status_code, success |-> FALSE, message |-> "error", data |-> EmptyDict]

\* One call_engine invocation of a step.
Call(key, path) == [key |-> key, path |-> path]

\* Dict literals.
Dict1(k1, v1) == DictSet(EmptyDict, k1, v1)
Dict2(k1, v1, k2, v2) == DictSet(Dict1(k1, v1), k2, v2)
Dict3(k1, v1, k2, v2, k3, v3) == DictSet(Dict2(k1, v1, k2, v2), k3, v3)
Dict4(k1, v1, k2, v2, k3, v3, k4, v4) == DictSet(Dict3(k1, v1, k2, v2, k3, v3), k4, v4)

----------------------------------------------------------------------------
(* POST /query: orchestrated_query *)

query_locals ==
    [intent_data |-> "default_intent", context_passages |-> 0, answer_data |-> EmptyDict,
     anomaly_data |-> "{}", trust_data |-> "{}"]

query_calls(h) ==
    CASE h.pc = "intent" -> <<Call("neural_network", "/ai/intent")>>
      [] h.pc = "vector_search" -> <<Call("vector_database", "/vectors/search")>>
      [] h.pc = "generation" ->
            IF h.locals.context_passages > 0
            THEN <<Call("neural_network", "/ai/rag")>>
            ELSE <<Call("neural_network", "/ai/chat")>>
      [] h.pc = "anomaly_trust" -> <<Call("anomaly_detection", "/anomaly/check"),
                                     Call("trust_scoring", "/trust/score")>>

\* What a successful engine may return to the step's i-th call.
query_payloads(h, i) ==
    CASE h.pc = "intent" -> {"intent_data"}
      [] h.pc = "vector_search" -> 0 .. MaxPassages
      [] h.pc = "generation" ->
            IF h.locals.context_passages > 0 THEN {Dict1("answer", "rag_answer")}
            ELSE {Dict1("response", "chat_response")}
      [] h.pc = "anomaly_trust" -> IF i = 1 THEN {"anomaly_report"} ELSE {"trust_report"}

\* Generation handled as the optional steps are: marked and passed over.
query_generation_optional(h, e) == goto(append(h, "ai_generation"), "anomaly_trust")

\* except EngineCallError as e, around the generation call
query_generation_failed(h, e) ==
    [goto(h, "returned") EXCEPT !.response =
        ApiResponse(FALSE, "AI service temporarily unavailable. Please try again.",
                    Dict1("degraded", Some(h.degraded \o <<"ai_generation">>)))]

\* The handler from the results rs of the step's calls to its next await.
query_resume(h, rs) ==
    CASE h.pc = "intent" ->
            goto(IF rs[1].ok THEN assign(h, "intent_data", rs[1].payload)
                 ELSE append(h, "intent_classification"),
                 "vector_search")
      [] h.pc = "vector_search" ->
            goto(IF rs[1].ok THEN assign(h, "context_passages", rs[1].payload)
                 ELSE append(h, "vector_search"),
                 "generation")
      [] h.pc = "generation" ->
            IF rs[1].ok
            THEN goto(assign(h, "answer_data", rs[1].payload), "anomaly_trust")
            ELSE query_generation_failed(h, rs[1])
      [] h.pc = "anomaly_trust" ->
            LET h1 == IF rs[1].ok THEN assign(h, "anomaly_data", rs[1].payload)
                      ELSE append(h, "anomaly_check")
                h2 == IF rs[2].ok THEN assign(h1, "trust_data", rs[2].payload)
                      ELSE append(h1, "trust_scoring")
            IN  goto(h2, "audit")

\* The text of the "answer" key only.
answer_text_rag_only(answer_data) == DictGet(answer_data, "answer", "")

\* answer_data.get("answer") or answer_data.get("response", ""): a missing
\* and an empty answer are both passed over.
answer_text(answer_data) ==
    IF DictGet(answer_data, "answer", "") # "" THEN answer_data["answer"]
    ELSE DictGet(answer_data, "response", "")

\* The ApiResponse returned after audit_log.
query_response(h) ==
    ApiResponse(TRUE, "OK",
        Dict4("response", answer_text(h.locals.answer_data),
              "anomaly", h.locals.anomaly_data,
              "trust", h.locals.trust_data,
              "degraded", ListOrNone(h.degraded)))

----------------------------------------------------------------------------
(* POST /onboard: orchestrated_onboard *)

onboard_locals ==
    [reg_data |-> "{}", identity_token |-> "", profile_data |-> "{}",
     eligibility_data |-> "{}", deadlines_data |-> "{}", profile_json |-> "{}"]

onboard_calls(h) ==
    CASE h.pc = "register" -> <<Call("login_register", "/auth/register")>>
      [] h.pc = "identity" -> <<Call("identity", "/identity/create")>>
      [] h.pc = "metadata" -> <<Call("metadata", "/metadata/process")>>
      [] h.pc = "processed_metadata" ->
            <<Call("processed_metadata", "/processed-metadata/store")>>
      [] h.pc = "eligibility_deadline" ->
            <<Call("eligibility_rules", "/eligibility/check"),
              Call("deadline_monitoring", "/deadlines/check")>>
      [] h.pc = "profile" -> <<Call("json_user_info", "/profile/generate")>>

onboard_payloads(h, i) ==
    CASE h.pc = "register" -> {"reg_data"}
      [] h.pc = "identity" -> {"identity_data"}
      [] h.pc = "metadata" -> {"profile_data"}
      [] h.pc = "processed_metadata" -> {"stored"}
      [] h.pc = "eligibility_deadline" ->
            IF i = 1 THEN {"eligibility_result"} ELSE {"deadlines_result"}
      [] h.pc = "profile" -> {"profile_json"}

\* Registration handled as the optional steps are: marked and passed over.
onboard_registration_optional(h, e) == goto(append(h, "registration"), "identity")

\* except EngineCallError as e, around the registration call
onboard_registration_failed(h, e) ==
    [goto(h, "returned") EXCEPT !.response = HTTPException(status_or(e.status, 500))]

onboard_resume(h, rs) ==
    CASE h.pc = "register" ->
            IF rs[1].ok
            THEN goto(assign(h, "reg_data", rs[1].payload), "identity")
            ELSE onboard_registration_failed(h, rs[1])
      [] h.pc = "identity" ->
            goto(IF rs[1].ok THEN assign(h, "identity_token", rs[1].payload)
                 ELSE append(h, "identity_creation"),
                 "metadata")
      [] h.pc = "metadata" ->
            goto(IF rs[1].ok THEN assign(h, "profile_data", rs[1].payload)
                 ELSE append(h, "metadata_normalization"),
                 "processed_metadata")
      [] h.pc = "processed_metadata" ->
            goto(IF rs[1].ok THEN h ELSE append(h, "processed_metadata_store"),
                 "eligibility_deadline")
      [] h.pc = "eligibility_deadline" ->
            LET h1 == IF rs[1].ok THEN assign(h, "eligibility_data", rs[1].payload)
                      ELSE append(h, "eligibility_check")
                h2 == IF rs[2].ok THEN assign(h1, "deadlines_data", rs[2].payload)
                      ELSE append(h1, "deadline_check")
            IN  goto(h2, "profile")
      [] h.pc = "profile" ->
            goto(IF rs[1].ok THEN assign(h, "profile_json", rs[1].payload)
                 ELSE append(h, "profile_generation"),
                 "audit")

onboard_response(h) ==
    ApiResponse(TRUE,
        IF h.degraded = <<>> THEN "Onboarding complete"
        ELSE "Onboarding complete with some services degraded",
        Dict4("eligibility_summary", DictOrNone(h.locals.eligibility_data),
              "upcoming_deadlines", DictOrNone(h.locals.deadlines_data),
              "profile_completeness", DictOrNone(h.locals.profile_json),
              "degraded", ListOrNone(h.degraded)))

----------------------------------------------------------------------------
(* POST /check-eligibility: orchestrated_eligibility *)

eligibility_locals == [elig_data |-> "{}", explanation |-> None]

eligibility_calls(h) ==
    CASE h.pc = "eligibility" -> <<Call("eligibility_rules", "/eligibility/check")>>
      [] h.pc = "explanation" -> <<Call("neural_network", "/ai/summarize")>>

eligibility_payloads(h, i) ==
    CASE h.pc = "eligibility" -> {"elig_data"}
      [] h.pc = "explanation" -> {"summary"}

eligibility_resume(h, rs, b) ==
    CASE h.pc = "eligibility" ->
            IF rs[1].ok
            THEN goto(assign(h, "elig_data", rs[1].payload),
                      IF b.explain THEN "explanation" ELSE "audit")
            ELSE [goto(h, "returned") EXCEPT !.response =
                    HTTPException(status_or(rs[1].status, 500))]
      [] h.pc = "explanation" ->
            goto(IF rs[1].ok THEN assign(h, "explanation", Some(rs[1].payload))
                 ELSE append(h, "ai_explanation"),
                 "audit")

eligibility_response(h) ==
    ApiResponse(TRUE, "OK",
        Dict3("elig_data", h.locals.elig_data,
              "explanation", h.locals.explanation,
              "degraded", ListOrNone(h.degraded)))

----------------------------------------------------------------------------
(* POST /ingest-policy: orchestrated_ingest_policy *)

ingest_locals ==
    [raw_text |-> "", parsed_data |-> "{}", chunks |-> 0, embeddings |-> 0,
     vectors_upserted |-> 0]

ingest_calls(h) ==
    CASE h.pc = "fetch" -> <<Call("policy_fetching", "/schemes/fetch")>>
      [] h.pc = "parse" -> <<Call("doc_understanding", "/documents/parse")>>
      [] h.pc = "chunk" -> <<Call("chunks", "/chunks/create")>>
      [] h.pc = "embedding" -> <<Call("neural_network", "/ai/embeddings")>>
      [] h.pc = "vector_upsert" -> <<Call("vector_database", "/vectors/upsert/batch")>>
      [] h.pc = "metadata" -> <<Call("metadata", "/metadata/process")>>

\* The fetched text, the parsed fields, the number of chunks, of embeddings
\* and of inserted vectors.
ingest_payloads(h, i) ==
    CASE h.pc = "fetch" -> {"", "text"}
      [] h.pc = "parse" -> {"{}", "parsed_data"}
      [] h.pc = "chunk" -> 0 .. MaxChunks
      [] h.pc = "embedding" -> 0 .. MaxChunks + 1
      [] h.pc = "vector_upsert" -> {h.locals.chunks}
      [] h.pc = "metadata" -> {"tagged"}

\* The upsert attempted with whatever embeddings there are.
ingest_upsert_any_embeddings(h) ==
    IF h.locals.embeddings > 0
    THEN goto(h, "vector_upsert")
    ELSE goto(h, "metadata")

\* Steps 4 ends: the upsert runs only with one embedding per chunk.
ingest_after_embedding(h) ==
    IF h.locals.embeddings > 0 /\ h.locals.embeddings = h.locals.chunks
    THEN goto(h, "vector_upsert")
    ELSE IF h.locals.embeddings > 0
         THEN goto(append(h, "embedding_mismatch"), "metadata")
         ELSE goto(h, "metadata")

ingest_resume(h, rs) ==
    CASE h.pc = "fetch" ->
            IF ~rs[1].ok
            THEN [goto(h, "returned") EXCEPT !.response =
                    HTTPException(status_or(rs[1].status, 502))]
            ELSE IF rs[1].payload = ""
                 THEN [goto(h, "returned") EXCEPT !.response =
                         ApiResponse(FALSE, "Fetched document has no text content.",
                                     Dict1("document_id", "doc_id"))]
                 ELSE goto(assign(h, "raw_text", rs[1].payload), "parse")
      [] h.pc = "parse" ->
            goto(IF rs[1].ok THEN assign(h, "parsed_data", rs[1].payload)
                 ELSE append(h, "document_parsing"),
                 "chunk")
      [] h.pc = "chunk" ->
            LET h1 == IF rs[1].ok THEN assign(h, "chunks", rs[1].payload)
                      ELSE append(h, "chunking")
            IN  IF h1.locals.chunks = 0
                THEN [goto(h1, "returned") EXCEPT !.response =
                        ApiResponse(TRUE,
                            "Document fetched but chunking failed. Partial ingestion.",
                            Dict4("parsed", h1.locals.parsed_data # "{}",
                                  "chunks_created", 0,
                                  "vectors_upserted", 0,
                                  "degraded", Some(h1.degraded)))]
                ELSE goto(h1, "embedding")
      [] h.pc = "embedding" ->
            ingest_after_embedding(IF rs[1].ok THEN assign(h, "embeddings", rs[1].payload)
                                   ELSE append(h, "embedding"))
      [] h.pc = "vector_upsert" ->
            goto(IF rs[1].ok THEN assign(h, "vectors_upserted", rs[1].payload)
                 ELSE append(h, "vector_upsert"),
                 "metadata")
      [] h.pc = "metadata" ->
            goto(IF rs[1].ok THEN h ELSE append(h, "metadata_tagging"), "audit")

ingest_response(h) ==
    ApiResponse(TRUE,
        IF h.degraded = <<>> THEN "Policy ingestion complete"
        ELSE "Policy ingestion complete with some steps degraded",
        Dict4("chunks_created", h.locals.chunks,
              "vectors_upserted", h.locals.vectors_upserted,
              "parsed_fields", h.locals.parsed_data,
              "degraded", ListOrNone(h.degraded)))

----------------------------------------------------------------------------
(* POST /voice-query: orchestrated_voice_query *)

Intents == {"eligibility", "scheme_query", "deadline", "general"}

voice_locals == [intent |-> "general", passages |-> 0, response_text |-> "", tts_data |-> "{}"]

voice_calls(h) ==
    CASE h.pc = "intent" -> <<Call("neural_network", "/ai/intent")>>
      [] h.pc = "route" ->
            CASE h.locals.intent = "eligibility" ->
                    <<Call("eligibility_rules", "/eligibility/check")>>
              [] h.locals.intent = "scheme_query" ->
                    <<Call("vector_database", "/vectors/search")>>
              [] h.locals.intent = "deadline" ->
                    <<Call("deadline_monitoring", "/deadlines/check")>>
              [] OTHER -> <<Call("neural_network", "/ai/chat")>>
      [] h.pc = "route_generation" ->
            IF h.locals.passages > 0
            THEN <<Call("neural_network", "/ai/rag")>>
            ELSE <<Call("neural_network", "/ai/chat")>>
      [] h.pc = "translate" -> <<Call("neural_network", "/ai/translate")>>
      [] h.pc = "tts" -> <<Call("speech_interface", "/speech/tts")>>

voice_payloads(h, i) ==
    CASE h.pc = "intent" -> Intents
      [] h.pc = "route" ->
            CASE h.locals.intent = "eligibility" -> {"eligible_text"}
              [] h.locals.intent = "scheme_query" -> 0 .. MaxPassages
              [] h.locals.intent = "deadline" -> {"deadline_text"}
              [] OTHER -> {"", "chat_response"}
      [] h.pc = "route_generation" ->
            IF h.locals.passages > 0 THEN {"rag_answer"} ELSE {"chat_response"}
      [] h.pc = "translate" -> {"translated"}
      [] h.pc = "tts" -> {"tts_data"}

\* Step 2 ends: the translation runs for another language than English, and
\* only if there is a text.
voice_after_route(h, b) ==
    IF b.language # "english" /\ b.language # "en" /\ h.locals.response_text # ""
    THEN goto(h, "translate")
    ELSE goto(h, "tts")

\* The except branch of step 2 leaving the text as it is.
voice_route_failed_without_text(h) == append(h, "intent_routing")

\* "except EngineCallError" of step 2: the apology, and "intent_routing".
voice_route_failed(h) ==
    append(assign(h, "response_text", "service_unavailable_text"), "intent_routing")

voice_resume(h, rs, b) ==
    CASE h.pc = "intent" ->
            goto(IF rs[1].ok THEN assign(h, "intent", rs[1].payload)
                 ELSE append(h, "intent_classification"),
                 "route")
      [] h.pc = "route" ->
            IF ~rs[1].ok THEN voice_after_route(voice_route_failed(h), b)
            ELSE IF h.locals.intent = "scheme_query"
                 THEN goto(assign(h, "passages", rs[1].payload), "route_generation")
                 ELSE voice_after_route(assign(h, "response_text", rs[1].payload), b)
      [] h.pc = "route_generation" ->
            voice_after_route(IF rs[1].ok THEN assign(h, "response_text", rs[1].payload)
                              ELSE voice_route_failed(h), b)
      [] h.pc = "translate" ->
            goto(IF rs[1].ok THEN assign(h, "response_text", rs[1].payload)
                 ELSE append(h, "translation"),
                 "tts")
      [] h.pc = "tts" ->
            goto(IF rs[1].ok THEN assign(h, "tts_data", rs[1].payload)
                 ELSE append(h, "text_to_speech"),
                 "audit")

voice_response(h) ==
    ApiResponse(TRUE, "OK",
        Dict4("response", h.locals.response_text,
              "intent", h.locals.intent,
              "audio_session_id", DictOrNone(h.locals.tts_data),
              "degraded", ListOrNone(h.degraded)))

----------------------------------------------------------------------------
(* POST /simulate: orchestrated_simulate *)

simulate_locals == [sim_data |-> "{}", explanation |-> None]

simulate_calls(h) ==
    CASE h.pc = "simulation" -> <<Call("simulation", "/simulate/what-if")>>
      [] h.pc = "explanation" -> <<Call("neural_network", "/ai/summarize")>>

simulate_payloads(h, i) ==
    CASE h.pc = "simulation" -> {"sim_data"}
      [] h.pc = "explanation" -> {"summary"}

simulate_resume(h, rs, b) ==
    CASE h.pc = "simulation" ->
            IF rs[1].ok
            THEN goto(assign(h, "sim_data", rs[1].payload),
                      IF b.explain THEN "explanation" ELSE "audit")
            ELSE [goto(h, "returned") EXCEPT !.response =
                    HTTPException(status_or(rs[1].status, 500))]
      [] h.pc = "explanation" ->
            goto(IF rs[1].ok THEN assign(h, "explanation", Some(rs[1].payload))
                 ELSE append(h, "ai_explanation"),
                 "audit")

simulate_response(h) ==
    ApiResponse(TRUE, "OK",
        Dict3("sim_data", h.locals.sim_data,
              "explanation", h.locals.explanation,
              "degraded", ListOrNone(h.degraded)))

----------------------------------------------------------------------------
(* SpecPipe: one inbound request *)

Pipelines == {"query", "onboard", "eligibility", "ingest", "voice", "simulate"}

\* The routes declared with user=Depends(require_auth): their handler runs
\* only for a request whose Authorization header holds a valid token.
Protected == {"query", "eligibility", "ingest", "simulate"}

BearerToken == "Bearer token-1"

\* The requests a route is called with: the fields of the body it branches
\* on, and the Authorization header when the route requires it.
Bodies(pl) ==
    LET req == [NoBody EXCEPT !.authorization =
                                  IF pl \in Protected THEN BearerToken ELSE NoHeader]
    IN  CASE pl \in {"eligibility", "simulate"} -> {[req EXCEPT !.explain = e] : e \in BOOLEAN}
          [] pl = "voice" -> {[req EXCEPT !.language = l] : l \in {"english", "hi"}}
          [] OTHER -> {req}

FirstStep(pl) ==
    CASE pl = "query" -> "intent"
      [] pl = "onboard" -> "register"
      [] pl = "eligibility" -> "eligibility"
      [] pl = "ingest" -> "fetch"
      [] pl = "voice" -> "intent"
      [] pl = "simulate" -> "simulation"

InitialLocals(pl) ==
    CASE pl = "query" -> query_locals
      [] pl = "onboard" -> onboard_locals
      [] pl = "eligibility" -> eligibility_locals
      [] pl = "ingest" -> ingest_locals
      [] pl = "voice" -> voice_locals
      [] pl = "simulate" -> simulate_locals

CallsOf(pl, h) ==
    CASE pl = "query" -> query_calls(h)
      [] pl = "onboard" -> onboard_calls(h)
      [] pl = "eligibility" -> eligibility_calls(h)
      [] pl = "ingest" -> ingest_calls(h)
      [] pl = "voice" -> voice_calls(h)
      [] pl = "simulate" -> simulate_calls(h)

\* Every call site passes request_id=request_id.
Calls(pl, h) ==
    [i \in DOMAIN CallsOf(pl, h) |->
        [key |-> CallsOf(pl, h)[i].key, path |-> CallsOf(pl, h)[i].path,
         request_id |-> h.locals["request_id"]]]

Payloads(pl, h, i) ==
    CASE pl = "query" -> query_payloads(h, i)
      [] pl = "onboard" -> onboard_payloads(h, i)
      [] pl = "eligibility" -> eligibility_payloads(h, i)
      [] pl = "ingest" -> ingest_payloads(h, i)
      [] pl = "voice" -> voice_payloads(h, i)
      [] pl = "simulate" -> simulate_payloads(h, i)

Resume(pl, h, rs) ==
    CASE pl = "query" -> query_resume(h, rs)
      [] pl = "onboard" -> onboard_resume(h, rs)
      [] pl = "eligibility" -> eligibility_resume(h, rs, body)
      [] pl = "ingest" -> ingest_resume(h, rs)
      [] pl = "voice" -> voice_resume(h, rs, body)
      [] pl = "simulate" -> simulate_resume(h, rs, body)

ResponseOf(pl, h) ==
    CASE pl = "query" -> query_response(h)
      [] pl = "onboard" -> onboard_response(h)
      [] pl = "eligibility" -> eligibility_response(h)
      [] pl = "ingest" -> ingest_response(h)
      [] pl = "voice" -> voice_response(h)
      [] pl = "simulate" -> simulate_response(h)

SetHandler(h) ==
    /\ pc' = h.pc
    /\ degraded' = h.degraded
    /\ locals' = h.locals
    /\ response' = IF h.pc = "returned"
                   THEN add_trace_id(h.response, h.locals["request_id"])
                   ELSE h.response

\* The results of a group in the order in which its calls completed.
gather_in_completion_order(settled, order) ==
    IF Len(settled) > 1 THEN [i \in DOMAIN settled |-> settled[order[i]]] ELSE settled

\* asyncio.gather(*calls, return_exceptions=True), and "await call" for one
\* call: the results in the order of the arguments, whatever the order of
\* completion.
gather(settled, order) == settled

\* An await that resumes as soon as one of its calls is settled.
FirstSettled(recs) == recs = <<>> \/ \E i \in DOMAIN recs : recs[i].settled

AllSettled(recs) == \A i \in DOMAIN recs : recs[i].settled

\* The coroutines of a step run, in the order of the arguments, up to their
\* HTTP request: [cb, recs], one record per call.
RECURSIVE BeginAll(_, _, _)
BeginAll(cb, cs, t) ==
    IF cs = <<>> THEN [cb |-> cb, recs |-> <<>>]
    ELSE LET b == call_engine_begin(cb, cs[1].key, t)
             rec == [key |-> cs[1].key, path |-> cs[1].path,
                     x_request_id |-> x_request_id(cs[1].request_id), sent |-> b.sent,
                     settled |-> ~b.sent, ok |-> FALSE, status |-> b.status,
                     payload |-> "-"]
             rest == BeginAll(b.cb, Tail(cs), t)
         IN  [cb |-> rest.cb, recs |-> <<rec>> \o rest.recs]

\* The indexes of the calls that are settled already, in order.
RECURSIVE SettledIndexes(_, _)
SettledIndexes(recs, i) ==
    IF i > Len(recs) THEN <<>>
    ELSE (IF recs[i].settled THEN <<i>> ELSE <<>>) \o SettledIndexes(recs, i + 1)

\* What became of a call: it returned, it raised, or it is suspended.
ResultOf(settled, ok) == IF ~settled THEN "pending" ELSE IF ok THEN "ok" ELSE "failed"

LogEntries(recs) == [i \in DOMAIN recs |->
                        [key |-> recs[i].key, path |-> recs[i].path,
                         x_request_id |-> recs[i].x_request_id, headers |-> headers,
                         sent |-> recs[i].sent,
                         result |-> ResultOf(recs[i].settled, recs[i].ok)]]

\* The handler is suspended on recs, or resumes if they all are settled;
\* awaiting keeps the calls of the last await and what became of them.
Await(recs, order) ==
    /\ gathered' = IF Len(recs) > 1 THEN [calls |-> recs, order |-> order] ELSE gathered
    /\ awaiting' = recs
    /\ IF AllSettled(recs)
       THEN SetHandler(Resume(pipeline, Handler, gather(recs, order)))
       ELSE UNCHANGED <<pc, degraded, locals, response>>

\* An inbound request reaches a route.
StartRequest(pl, b) ==
    /\ pipeline = "none"
    /\ pipeline' = pl
    /\ body' = b
    /\ pc' = FirstStep(pl)
    /\ locals' = DictSet(InitialLocals(pl), "request_id", trace_id_of(b))
    /\ UNCHANGED <<cbVars, now, ev, calls, probes, last_call, degraded, awaiting,
                   gathered, call_log, response, audit>>

\* The handler reaches a step and issues its calls.
Issue ==
    /\ pipeline # "none"
    /\ pc \notin {"audit", "returned"}
    /\ AllSettled(awaiting)
    /\ LET b == BeginAll(CB, Calls(pipeline, Handler), now)
       IN  /\ SetBreaker(b.cb)
           /\ call_log' = call_log \o LogEntries(b.recs)
           /\ Await(b.recs, SettledIndexes(b.recs, 1))
    /\ UNCHANGED <<now, ev, calls, probes, last_call, pipeline, body, audit>>

\* The network answers the i-th call the handler is suspended on.
Settle(i, net) ==
    /\ i \in DOMAIN awaiting
    /\ ~awaiting[i].settled
    /\ LET e == call_engine_end(CB, awaiting[i].key, net, now)
       IN  /\ SetBreaker(e.cb)
           /\ \E payload \in (IF e.ok THEN Payloads(pipeline, Handler, i) ELSE {"-"}) :
                 LET recs == [awaiting EXCEPT ![i] = [@ EXCEPT !.settled = TRUE,
                                                              !.ok = e.ok,
                                                              !.status = e.status,
                                                              !.payload = payload]]
                 IN  /\ call_log' = SubSeq(call_log, 1, Len(call_log) - Len(awaiting))
                                        \o LogEntries(recs)
                     /\ Await(recs, IF Len(awaiting) > 1 THEN Append(gathered.order, i)
                                                         ELSE <<>>)
    /\ UNCHANGED <<now, ev, calls, probes, last_call, pipeline, body, audit>>

\* await audit_log(...): the task _post_audit is created, and the handler
\* returns its response without suspending.
AuditLog ==
    /\ pc = "audit"
    /\ audit' = [step |-> "raw_data_store", in_flight |-> FALSE,
                 request_id |-> locals["request_id"]]
    /\ SetHandler([goto(Handler, "returned") EXCEPT
                        !.response = ResponseOf(pipeline, Handler)])
    /\ UNCHANGED <<cbVars, now, ev, calls, probes, last_call, pipeline, body, awaiting,
                   gathered, call_log>>

\* A failed write answered to the caller as the failure of a critical step is.
post_audit_raises(resp, e) ==
    IF e.ok THEN resp ELSE HTTPException(status_or(e.status, 500))

\* "except Exception as e: logger.warning(...)" of _post_audit: the response
\* of the request is what it was.
post_audit_except(resp, e) == resp

\* _post_audit: the two writes, one after the other, each in its own try.
AuditPath(key) ==
    IF key = "raw_data_store" THEN "/raw-data/events" ELSE "/analytics/event"

\* The second write attempted only after a first write that succeeded.
AuditNextIfWritten(key, ok) ==
    IF key = "raw_data_store" /\ ok THEN "analytics_warehouse" ELSE "done"

\* What _post_audit does after the write to key has returned (ok) or raised.
AuditNext(key, ok) ==
    IF key = "raw_data_store" THEN "analytics_warehouse" ELSE "done"

AuditIssue ==
    /\ audit.step \in {"raw_data_store", "analytics_warehouse"}
    /\ ~audit.in_flight
    /\ LET b == call_engine_begin(CB, audit.step, now)
       IN  /\ SetBreaker(b.cb)
           /\ call_log' = Append(call_log, [key |-> audit.step,
                                            path |-> AuditPath(audit.step),
                                            x_request_id |->
                                                x_request_id(audit.request_id),
                                            headers |-> headers,
                                            sent |-> b.sent,
                                            result |-> ResultOf(~b.sent, FALSE)])
           /\ audit' = IF b.sent THEN [audit EXCEPT !.in_flight = TRUE]
                                 ELSE [audit EXCEPT !.step = AuditNext(audit.step, FALSE)]
           /\ response' = IF b.sent THEN response
                          ELSE post_audit_except(response, [ok |-> FALSE, status |-> b.status])
    /\ UNCHANGED <<now, ev, calls, probes, last_call, pipeline, body, pc, degraded,
                   locals, awaiting, gathered>>

AuditSettle(net) ==
    /\ audit.in_flight
    /\ LET e == call_engine_end(CB, audit.step, net, now)
       IN  /\ SetBreaker(e.cb)
           /\ call_log' = [call_log EXCEPT ![Len(call_log)].result = ResultOf(TRUE, e.ok)]
           /\ response' = post_audit_except(response, e)
           /\ audit' = [audit EXCEPT !.step = AuditNext(audit.step, e.ok),
                                     !.in_flight = FALSE]
    /\ UNCHANGED <<now, ev, calls, probes, last_call, pipeline, body, pc, degraded,
                   locals, awaiting, gathered>>

NextPipe ==
    \/ \E pl \in Pipelines : \E b \in Bodies(pl) : StartRequest(pl, b)
    \/ Issue
    \/ \E i \in 1 .. 2, net \in PipeNet : Settle(i, net)
    \/ AuditLog
    \/ AuditIssue
    \/ \E net \in PipeNet : AuditSettle(net)

\* The breaker when the request arrives: untouched, or with one engine that
\* has just failed failure_threshold times in a row.
RECURSIVE Trip(_, _, _, _)
Trip(cb, engine, t, n) ==
    IF n = 0 THEN cb ELSE Trip(record_failure(cb, engine, t), engine, t, n - 1)

Tripped == {"login_register", "trust_scoring", "eligibility_rules", "raw_data_store"}

InitPipe ==
    /\ now = 0
    /\ \E cb \in {NewBreaker} \cup {Trip(NewBreaker, k, 0, failure_threshold) : k \in Tripped} :
          /\ states = cb.states
          /\ failure_counts = cb.failure_counts
          /\ last_failure_time = cb.last_failure_time
    /\ InitIdle

SpecPipe == InitPipe /\ [][NextPipe]_vars

----------------------------------------------------------------------------
(* Properties of the circuit breaker (Spec) *)

\* C1: once a key has failure_threshold or more consecutive failures (its
\* count, which only record_success resets, is at the threshold), every
\* allow_request for it returns false while now - last_failure_time is
\* at most recovery_timeout and returns true once it is more.
C1_OpenUntilRecoveryTimeout ==
    (ev.op = "allow_request" /\ ev.pre_count >= failure_threshold)
        => (ev.ret <=> (now - LastOf(ev.key) > recovery_timeout))

\* allow_request has just returned true for a tripped key that was stored OPEN.
C1_Witness ==
    /\ ev.op = "allow_request"
    /\ ev.pre_count >= failure_threshold
    /\ ev.pre_state = OPEN
    /\ ev.ret
    /\ now - LastOf(ev.key) > recovery_timeout

\* C3: after record_success(key), whatever the state and the count were,
\* the key's count is 0 and its state is CLOSED.
C3_SuccessResets ==
    ev.op = "record_success"
        => (CountOf(ev.key) = 0 /\ StateOf(ev.key) = CLOSED)

\* record_success has just been called on a HALF_OPEN key.
C3_Witness ==
    /\ ev.op = "record_success"
    /\ ev.pre_state = HALF_OPEN
    /\ ev.pre_count >= failure_threshold

\* C4: a key stored as OPEN has a consecutive failure count of at least
\* failure_threshold.
C4_OpenImpliesThreshold ==
    \A engine \in Engines :
        StateOf(engine) = OPEN => CountOf(engine) >= failure_threshold

\* get_status has run while a key is OPEN and another call has reset the other key.
C4_Witness ==
    /\ ev.op = "get_status"
    /\ \E engine \in Engines : StateOf(engine) = OPEN
    /\ \E engine \in Engines : engine \in DOMAIN states /\ StateOf(engine) = CLOSED

----------------------------------------------------------------------------
(* Properties of call_engine (SpecCall) *)

\* C2: in HALF_OPEN exactly one request is admitted as a probe: between two
\* record_success / record_failure of a key, at most one call_engine is
\* admitted while the key is HALF_OPEN.
C2_SingleProbe ==
    \A engine \in Engines : probes[engine] <= 1

\* C5 as claimed: a call that receives an HTTP response with status >= 400
\* leaves the state and the failure count of its service as they were
\* (stated for the responses whose body call_engine can read, so that the
\* handler of other exceptions plays no part).
C5_ErrorResponseKeepsBreaker ==
    [][(last_call'.op = "end" /\ last_call'.net.kind = "response"
            /\ last_call'.net.status_code >= 400
            /\ last_call'.net.body # "not_json")
        => (DictGet(states', last_call'.key, CLOSED) = StateOf(last_call'.key)
            /\ DictGet(failure_counts', last_call'.key, 0) = CountOf(last_call'.key))]_vars

\* C5 as amended: a call that receives an HTTP response with status >= 400
\* records a success: whatever they were before, afterwards the count is 0
\* and the state CLOSED; when the body cannot be parsed the handler of other
\* exceptions then records one failure on top of that.
C5_ErrorResponseRecordsSuccess ==
    (last_call.op = "end" /\ last_call.net.kind = "response"
        /\ last_call.net.status_code >= 400)
    => IF last_call.net.body = "not_json"
       THEN /\ CountOf(last_call.key) = 1
            /\ StateOf(last_call.key) = (IF 1 >= failure_threshold THEN OPEN ELSE CLOSED)
       ELSE /\ CountOf(last_call.key) = 0
            /\ StateOf(last_call.key) = CLOSED

\* A 4xx/5xx response with a readable body has arrived for a call to a key
\* that had tripped meanwhile.
C5_Witness ==
    /\ last_call.op = "end"
    /\ last_call.net.kind = "response"
    /\ last_call.net.status_code >= 400
    /\ last_call.net.body = "json"
    /\ last_call.pre_state = OPEN
    /\ last_call.pre_count >= failure_threshold

\* C6: call_engine records a failure, once, exactly when the call ended in a
\* transport-level failure; a call that received an HTTP response, whatever
\* its status or body, does not increment the failure count.
C6_OnlyTransportFailuresCount ==
    [][last_call'.op = "end"
        => IF last_call'.net.kind = "response"
           THEN DictGet(failure_counts', last_call'.key, 0) <= CountOf(last_call'.key)
           ELSE DictGet(failure_counts', last_call'.key, 0) = CountOf(last_call'.key) + 1]_vars

\* C7: a call to a key that is not configured raises with status 0, a call
\* to a key whose breaker rejects it (stored OPEN, recovery timeout not
\* elapsed) raises with status 503; neither issues an HTTP request nor
\* changes any field of the breaker.
C7_RejectedCallChangesNothing ==
    [][last_call'.op = "begin"
        => LET key == last_call'.key
               rejected == /\ ~last_call'.sent
                           /\ calls' = calls
                           /\ UNCHANGED cbVars
           IN  /\ key \notin ENGINE_URLS => (rejected /\ last_call'.status = 0)
               /\ (key \in ENGINE_URLS /\ StateOf(key) = OPEN
                     /\ now - LastOf(key) <= recovery_timeout)
                   => (rejected /\ last_call'.status = 503)]_vars

\* A call has just been rejected with 503 while another call to the same key
\* is suspended.
C7_Witness ==
    /\ last_call.op = "begin"
    /\ ~last_call.sent
    /\ last_call.status = 503
    /\ calls[last_call.key] > 0

----------------------------------------------------------------------------
(* SpecRoute: one inbound request, the routes against the interface of
   call_engine: a call returns the data of the engine, or raises
   EngineCallError with one of the statuses call_engine raises it with (0 for
   a key without URL, the engine's own status, 502, 503, 504). *)

ErrorStatuses == {0, 404, 502, 503, 504}

Raised(status) == [ok |-> FALSE, status |-> status, payload |-> "-"]

Returned(payload) == [ok |-> TRUE, status |-> 200, payload |-> payload]

Outcomes(pl, h, i) ==
    {Returned(p) : p \in Payloads(pl, h, i)} \cup {Raised(st) : st \in ErrorStatuses}

\* The record of a call that has ended with outcome o.
Ended(c, o) ==
    [key |-> c.key, path |-> c.path, x_request_id |-> x_request_id(c.request_id),
     sent |-> o.status # 0, settled |-> TRUE,
     ok |-> o.ok, status |-> o.status, payload |-> o.payload]

\* One step of the handler: its calls end, in some order, and it goes on to
\* its next await.
RouteStep ==
    /\ pipeline # "none"
    /\ pc \notin {"audit", "returned"}
    /\ LET cs == Calls(pipeline, Handler)
       IN  \E o1 \in Outcomes(pipeline, Handler, 1) :
           \E o2 \in (IF Len(cs) > 1 THEN Outcomes(pipeline, Handler, 2) ELSE {o1}) :
           \E order \in (IF Len(cs) > 1 THEN {<<1, 2>>, <<2, 1>>} ELSE {<<1>>}) :
               LET os == <<o1, o2>>
                   recs == [i \in DOMAIN cs |-> Ended(cs[i], os[i])]
               IN  /\ call_log' = call_log \o LogEntries(recs)
                   /\ Await(recs, order)
    /\ UNCHANGED <<cbVars, now, ev, calls, probes, last_call, pipeline, body, audit>>

\* One write of _post_audit: the call returns or raises.
RouteAudit ==
    /\ audit.step \in {"raw_data_store", "analytics_warehouse"}
    /\ \E o \in {Returned("stored")} \cup {Raised(st) : st \in ErrorStatuses} :
          /\ call_log' = call_log \o
                LogEntries(<<Ended([key |-> audit.step, path |-> AuditPath(audit.step),
                                    request_id |-> audit.request_id], o)>>)
          /\ audit' = [audit EXCEPT !.step = AuditNext(audit.step, o.ok)]
          /\ response' = post_audit_except(response, o)
    /\ UNCHANGED <<cbVars, now, ev, calls, probes, last_call, pipeline, body, pc, degraded,
                   locals, awaiting, gathered>>

\* The requests a route is called with: a body, and the two headers
\* add_trace_id reads, each one absent, empty or set; or a body and an
\* Authorization header that the route does not require.
Requests(pl) ==
    {[b EXCEPT !.x_trace_id = t, !.x_request_id = r] :
        b \in Bodies(pl), t \in {NoHeader, "", "trace-1"}, r \in {NoHeader, "request-1"}}
    \cup {[b EXCEPT !.authorization = BearerToken] : b \in Bodies(pl)}

NextRoute ==
    \/ \E pl \in Pipelines : \E req \in Requests(pl) : StartRequest(pl, req)
    \/ RouteStep
    \/ AuditLog
    \/ RouteAudit

SpecRoute == InitModule /\ [][NextRoute]_vars

----------------------------------------------------------------------------
(* Properties of the pipelines (SpecPipe) *)

InSeq(x, seq) == \E i \in DOMAIN seq : seq[i] = x

IsPrefix(p, q) == Len(p) <= Len(q) /\ SubSeq(q, 1, Len(p)) = p

\* The parallel groups: the name a member is marked with when it fails, and
\* where the response shows the result of a member that succeeded.
GroupStep(pl, i) ==
    IF pl = "query" THEN <<"anomaly_check", "trust_scoring">>[i]
    ELSE <<"eligibility_check", "deadline_check">>[i]

GroupField(pl, i) ==
    IF pl = "query" THEN <<"anomaly", "trust">>[i]
    ELSE <<"eligibility_summary", "upcoming_deadlines">>[i]

GroupShown(pl, payload) == IF pl = "query" THEN payload ELSE Some(payload)

\* The group of the request has completed, member i failed, the other did not.
OneFailed(i) ==
    /\ pipeline \in {"query", "onboard"}
    /\ gathered.calls # <<>>
    /\ AllSettled(gathered.calls)
    /\ ~gathered.calls[i].ok
    /\ gathered.calls[3 - i].ok

\* C8: in the parallel groups of Query and Onboarding, when one member fails
\* and the other succeeds, the degraded list holds the failed member's step
\* name and not the other's, and the final response holds the other's result,
\* whatever the order in which the two completed.
C8_ParallelGroupIsolation ==
    \A i \in {1, 2} :
        OneFailed(i)
        => /\ InSeq(GroupStep(pipeline, i), degraded)
           /\ ~InSeq(GroupStep(pipeline, 3 - i), degraded)
           /\ pc = "returned"
                => /\ response.http_status = 200
                   /\ response.data[GroupField(pipeline, 3 - i)]
                        = GroupShown(pipeline, gathered.calls[3 - i].payload)
                   /\ InSeq(GroupStep(pipeline, i), response.data["degraded"][1])

\* The response is returned of a request whose second member completed first
\* and succeeded, and whose first member completed last at the network and
\* failed.
C8_Witness ==
    /\ OneFailed(1)
    /\ gathered.calls[1].sent
    /\ gathered.order = <<2, 1>>
    /\ pc = "returned"

\* C9: within a request the degraded list only grows: every step of every
\* pipeline leaves the list as it is or appends to it, so the list of any
\* earlier point is a prefix of the list of any later point.
C9_DegradedOnlyGrows == [][IsPrefix(degraded, degraded')]_vars

\* A request has returned with three steps marked, one after the other.
C9_Witness ==
    /\ pc = "returned"
    /\ Len(degraded) >= 3

\* The registration call of the Onboarding request has failed.
RegistrationFailed ==
    /\ pipeline = "onboard"
    /\ call_log # <<>>
    /\ awaiting[1].key = "login_register"
    /\ awaiting[1].settled
    /\ ~awaiting[1].ok

\* C10: in Onboarding, when the registration call fails no other downstream
\* call is made for the request, the audit calls included, and the status
\* of the HTTP response is the status of the failure, or 500 if that is 0.
C10_RegistrationFailureStops ==
    RegistrationFailed
    => /\ Len(call_log) = 1
       /\ call_log[1].key = "login_register"
       /\ call_log[1].path = "/auth/register"
       /\ call_log[1].result = "failed"
       /\ audit = NoAudit
       /\ pc = "returned"
       /\ response.http_status = status_or(awaiting[1].status, 500)

\* The registration call was sent and has timed out.
C10_Witness ==
    /\ RegistrationFailed
    /\ awaiting[1].sent
    /\ response.http_status = 504

----------------------------------------------------------------------------
(* Properties of the routes (SpecRoute) *)

CriticalKey(pl) ==
    CASE pl = "onboard" -> "login_register"
      [] pl = "eligibility" -> "eligibility_rules"
      [] pl = "simulate" -> "simulation"
      [] pl = "ingest" -> "policy_fetching"
      [] OTHER -> "-"

\* The first call of the request was the critical one, and it has failed.
CriticalFailed ==
    /\ call_log # <<>>
    /\ awaiting[1].key = CriticalKey(pipeline)
    /\ awaiting[1].settled
    /\ ~awaiting[1].ok

\* The request was aborted at once.
Aborted ==
    /\ pc = "returned"
    /\ Len(call_log) = 1
    /\ audit = NoAudit
    /\ response.success = FALSE

----------------------------------------------------------------------------
(* Properties of the responses (SpecPipe) *)

\* The generation call of Query has failed.
GenerationFailed ==
    /\ pipeline = "query"
    /\ call_log # <<>>
    /\ awaiting[1].path \in {"/ai/rag", "/ai/chat"}
    /\ awaiting[1].settled
    /\ ~awaiting[1].ok

\* The handler has returned from a run that no failure cut short.
Completed ==
    /\ pc = "returned"
    /\ ~CriticalFailed
    /\ ~GenerationFailed

\* The messages that tell of a partial result.
NotesDegradation(message) ==
    message \in {"Onboarding complete with some services degraded",
                 "Policy ingestion complete with some steps degraded",
                 "Document fetched but chunking failed. Partial ingestion."}

\* C12: in each of the six pipelines a run that completes with a non-empty
\* degraded list returns HTTP 200 with success = true and a message that
\* notes the partial degradation, and a response that is not 2xx comes from
\* the failure of a critical step only.
C12_DegradedRunSaysSo ==
    /\ (Completed /\ degraded # <<>>)
         => /\ response.http_status = 200
            /\ response.success
            /\ NotesDegradation(response.message)
    /\ (pc = "returned" /\ response.http_status \notin 200 .. 299) => CriticalFailed

\* C13: in Query, when the generation call fails (/ai/rag after a search
\* that returned passages, /ai/chat otherwise) the response has success =
\* false, its degraded list is the list accumulated so far followed by
\* "ai_generation", and no anomaly, trust or audit call is issued.
C13_GenerationFailureStops ==
    GenerationFailed
    => /\ pc = "returned"
       /\ ~response.success
       /\ response.data["degraded"] = Some(degraded \o <<"ai_generation">>)
       /\ audit = NoAudit
       /\ call_log[Len(call_log)].path = awaiting[1].path
       /\ \A i \in DOMAIN call_log :
             call_log[i].key \notin {"anomaly_detection", "trust_scoring",
                                     "raw_data_store", "analytics_warehouse"}

\* The /ai/rag call has failed at the network after the intent step had
\* been marked degraded.
C13_Witness ==
    /\ GenerationFailed
    /\ awaiting[1].path = "/ai/rag"
    /\ awaiting[1].sent
    /\ degraded = <<"intent_classification">>
    /\ pc = "returned"

\* The vector search of the request has failed.
SearchFailed ==
    \E i \in DOMAIN call_log :
        call_log[i].path = "/vectors/search" /\ call_log[i].result = "failed"

\* Every call of the handler but the vector search has returned.
OthersSucceeded ==
    \A i \in DOMAIN call_log :
        (call_log[i].path \notin {"/vectors/search", "/raw-data/events", "/analytics/event"})
            => call_log[i].result = "ok"

HasEnded(path) ==
    \E i \in DOMAIN call_log : call_log[i].path = path /\ call_log[i].result # "pending"

Issued(path) == \E i \in DOMAIN call_log : call_log[i].path = path

\* C15: in Policy Ingestion with N >= 1 chunks, when the embedding step
\* yields no embedding (the call failed, or returned an empty list) the
\* upsert call is not issued and degraded holds "embedding"; when it yields
\* a number of embeddings that is neither 0 nor N the upsert call is not
\* issued and degraded holds "embedding_mismatch" and not "embedding".
C15_EmbeddingShortfallMarked ==
    (pipeline = "ingest" /\ locals.chunks >= 1 /\ HasEnded("/ai/embeddings"))
    => /\ locals.embeddings = 0
            => /\ ~Issued("/vectors/upsert/batch")
               /\ InSeq("embedding", degraded)
       /\ locals.embeddings \notin {0, locals.chunks}
            => /\ ~Issued("/vectors/upsert/batch")
               /\ InSeq("embedding_mismatch", degraded)
               /\ ~InSeq("embedding", degraded)

\* The chunking call of Policy Ingestion has failed (the step is critical
\* for continuing).
ChunkingFailed ==
    \E i \in DOMAIN call_log :
        call_log[i].path = "/chunks/create" /\ call_log[i].result = "failed"

\* C16: every run that the failure of a critical step does not abort
\* invokes audit_log, once, when all its other calls have settled and before
\* it returns its response.
C16_EveryCompletedRunAudits ==
    /\ (Completed /\ ~ChunkingFailed) => audit # NoAudit
    /\ audit # NoAudit => (AllSettled(awaiting) /\ pc = "returned")

----------------------------------------------------------------------------
(* Properties of the audit emission (SpecPipe) *)

AuditEntries == SelectSeq(call_log, LAMBDA c : c.key \in {"raw_data_store", "analytics_warehouse"})

\* C17: audit_log schedules its writes and returns without waiting for
\* them: the handler returns before any write is issued, and whatever
\* becomes of the two writes the response of the request is the one the
\* handler built, as if both had succeeded.
C17_AuditNeverTouchesResponse ==
    [][audit' # NoAudit
        => /\ pc' = "returned"
           /\ response' = add_trace_id(ResponseOf(pipeline', Handler'),
                                       locals'["request_id"])
           /\ audit = NoAudit => (call_log' = call_log /\ ~audit'.in_flight)]_vars

\* Both writes were attempted and both failed, the first one rejected by
\* its open breaker, the second one at the network.
C17_Witness ==
    /\ audit.step = "done"
    /\ Len(AuditEntries) = 2
    /\ AuditEntries[1].result = "failed" /\ ~AuditEntries[1].sent
    /\ AuditEntries[2].result = "failed" /\ AuditEntries[2].sent
    /\ response.http_status = 200
    /\ response.success

\* C18: the two audit writes are attempted independently: each at most
\* once, the raw data store first, and the analytics warehouse whatever
\* became of the first write; a failure of either is dropped.
C18_AuditWritesIndependent ==
    /\ Len(AuditEntries) <= 2
    /\ \A i \in DOMAIN AuditEntries :
          AuditEntries[i].key = <<"raw_data_store", "analytics_warehouse">>[i]
    /\ audit.step = "analytics_warehouse"
         => (Len(AuditEntries) >= 1 /\ AuditEntries[1].result # "pending")
    /\ audit.step = "done"
         => (Len(AuditEntries) = 2 /\ AuditEntries[2].result # "pending")
    /\ audit = NoAudit => AuditEntries = <<>>

\* The write to the raw data store failed at the network and the write to
\* the analytics warehouse succeeded.
C18_Witness ==
    /\ audit.step = "done"
    /\ Len(AuditEntries) = 2
    /\ AuditEntries[1].result = "failed" /\ AuditEntries[1].sent
    /\ AuditEntries[2].result = "ok"

----------------------------------------------------------------------------
(* Properties of the response envelope (SpecPipe) *)

\* C19: in every response of the six routes data.degraded is absent (or
\* null) or a list of step names that is not empty.
C19_DegradedAbsentOrNonEmpty ==
    (pc = "returned" /\ "degraded" \in DOMAIN response.data)
    => \/ response.data["degraded"] = None
       \/ response.data["degraded"][1] # <<>>

----------------------------------------------------------------------------
(* Properties of the trace id (SpecRoute) *)

\* C20: the trace id assigned to an inbound request, which is its
\* X-Trace-ID header when that header carries one, is the X-Trace-ID of the
\* response, and every downstream call made for the request, the two audit
\* writes included, carries it in its correlation header.
C20_TraceIdPropagated ==
    pipeline # "none"
    => /\ HeaderGiven(body.x_trace_id) => locals["request_id"] = body.x_trace_id
       /\ pc = "returned" => response.x_trace_id = locals["request_id"]
       /\ \A i \in DOMAIN call_log : call_log[i].x_request_id = locals["request_id"]

\* A request that came with both headers has returned and both audit
\* writes were made: every call carried the X-Trace-ID of the request.
C20_Witness ==
    /\ body.x_trace_id = "trace-1"
    /\ body.x_request_id = "request-1"
    /\ pc = "returned"
    /\ response.x_trace_id = "trace-1"
    /\ audit.step = "done"
    /\ Len(AuditEntries) = 2
    /\ Len(call_log) > 3
    /\ \A i \in DOMAIN call_log : call_log[i].x_request_id = "trace-1"

----------------------------------------------------------------------------
(* Properties of concurrent calls (SpecCall) *)

\* C21: no failure is lost when calls to one key fail concurrently: every
\* call that ends in a transport failure, whatever the other calls in flight
\* and the order in which they end, leaves the key's count one above what it
\* was, so that without a success in between the count is the number of
\* failures recorded; and the key is OPEN as soon as the count is
\* failure_threshold or more.
C21_NoLostFailure ==
    [][(last_call'.op = "end" /\ last_call'.net.kind # "response")
        => LET key == last_call'.key
               count == DictGet(failure_counts', key, 0)
           IN  /\ count = CountOf(key) + 1
               /\ count >= failure_threshold => DictGet(states', key, CLOSED) = OPEN]_vars

\* The failure that trips the key has just been recorded while another call
\* to the same key is still in flight.
C21_Witness ==
    /\ last_call.op = "end"
    /\ last_call.net.kind # "response"
    /\ last_call.pre_count = failure_threshold - 1
    /\ CountOf(last_call.key) = failure_threshold
    /\ StateOf(last_call.key) = OPEN
    /\ calls[last_call.key] > 0

----------------------------------------------------------------------------
(* Properties of the breaker's observers (Spec) *)

\* C22: get_status only reads: whenever it is called, no key's stored state,
\* failure count or last failure time is changed by it.
C22_GetStatusReadsOnly ==
    [][ev'.op = "get_status" => UNCHANGED cbVars]_vars

----------------------------------------------------------------------------
(* Properties of the requests the routes make (SpecRoute) *)

\* C23: when the inbound request carried an Authorization header, every
\* HTTP request call_engine makes while serving it carries an Authorization
\* header too.
C23_AuthorizationForwarded ==
    body.authorization # NoHeader
        => \A i \in DOMAIN call_log :
               call_log[i].sent => "Authorization" \in call_log[i].headers

----------------------------------------------------------------------------
(* Properties of the recovery window (Spec) *)

\* C24: a failure recorded while a key is HALF_OPEN reopens it with a new
\* window: right after record_failure the key is stored OPEN, its last
\* failure time is the time of that failure, and allow_request for it
\* returns false at every time up to recovery_timeout after that failure and
\* true once more than recovery_timeout has elapsed since it.
C24_FailedProbeReopens ==
    (ev.op = "record_failure" /\ ev.pre_state = HALF_OPEN)
        => /\ StateOf(ev.key) = OPEN
           /\ LastOf(ev.key) = now
           /\ \A t \in now .. now + recovery_timeout : ~allow_request(CB, ev.key, t).ret
           /\ allow_request(CB, ev.key, now + recovery_timeout + 1).ret

\* A probe admitted after the recovery timeout has just failed.
C24_Witness ==
    /\ ev.op = "record_failure"
    /\ ev.pre_state = HALF_OPEN
    /\ now > recovery_timeout
    /\ StateOf(ev.key) = OPEN

----------------------------------------------------------------------------
(* Properties of the order of the steps (SpecPipe) *)

\* The calls of POST /onboard and of its audit task, in declared order.
OnboardOrder ==
    <<"/auth/register", "/identity/create", "/metadata/process",
      "/processed-metadata/store", "/eligibility/check", "/deadlines/check",
      "/profile/generate", "/raw-data/events", "/analytics/event">>

PositionOf(path) == CHOOSE n \in DOMAIN OnboardOrder : OnboardOrder[n] = path

\* C25: within one run, a call is issued only once the calls of the step
\* before it have settled: a call still in flight is followed in the log by
\* the other member of its own parallel group only, so the step after a
\* group, the audit emission and the audit writes come after every member of
\* the group has settled; and the calls of POST /onboard are issued in
\* declared order.
C25_StepsInOrder ==
    LET last == Len(call_log)
    IN  /\ \A i \in 1 .. last - 1 :
              call_log[i].result = "pending"
                  => /\ Len(awaiting) = 2
                     /\ i = last - 1
                     /\ awaiting[1].path = call_log[i].path
                     /\ awaiting[2].path = call_log[last].path
                     /\ pc \notin {"audit", "returned"}
                     /\ audit.step = "none"
        /\ (pc \in {"audit", "returned"} \/ audit.step # "none")
              => \A i \in DOMAIN call_log :
                    call_log[i].result = "pending" => (audit.in_flight /\ i = last)
        /\ pipeline = "onboard"
              => \A i \in 1 .. last - 1 :
                    PositionOf(call_log[i].path) < PositionOf(call_log[i + 1].path)

\* POST /onboard has made all its calls, the second member of its parallel
\* group having completed before the first, and both audit writes.
C25_Witness ==
    /\ pipeline = "onboard"
    /\ gathered.order = <<2, 1>>
    /\ audit.step = "done"
    /\ Len(call_log) = Len(OnboardOrder)

----------------------------------------------------------------------------
(* Properties of POST /ingest-policy (SpecPipe) *)

PartialIngestion == "Document fetched but chunking failed. Partial ingestion."

\* C26: once the chunking call of POST /ingest-policy has failed or has
\* returned no chunks, the route has returned the partial-ingestion response
\* (HTTP 200, chunks_created = 0, vectors_upserted = 0) and makes no
\* embedding, vector-upsert or metadata call; and a vector-upsert call is
\* made only with at least one embedding and as many embeddings as chunks.
C26_PartialIngestionAndUpsertGuard ==
    pipeline = "ingest"
        => /\ (HasEnded("/chunks/create") /\ locals.chunks = 0)
                 => /\ pc = "returned"
                    /\ response.http_status = 200
                    /\ response.message = PartialIngestion
                    /\ response.data["chunks_created"] = 0
                    /\ response.data["vectors_upserted"] = 0
                    /\ ~Issued("/ai/embeddings")
                    /\ ~Issued("/vectors/upsert/batch")
                    /\ ~Issued("/metadata/process")
           /\ Issued("/vectors/upsert/batch")
                 => /\ locals.embeddings > 0
                    /\ locals.embeddings = locals.chunks

\* The chunking call has failed after a parse that succeeded, and the route
\* has returned.
C26_Witness ==
    /\ pipeline = "ingest"
    /\ ChunkingFailed
    /\ InSeq("chunking", degraded)
    /\ locals.parsed_data # "{}"
    /\ pc = "returned"

----------------------------------------------------------------------------
(* Properties of POST /voice-query (SpecPipe) *)

\* A call of the intent-routed branch (the call after /ai/intent, and the
\* generation call that follows a vector search that succeeded) has failed.
VoiceRouteFailed ==
    \/ Len(call_log) >= 2 /\ call_log[2].result = "failed"
    \/ /\ Len(call_log) >= 3
       /\ call_log[2].path = "/vectors/search" /\ call_log[2].result = "ok"
       /\ call_log[3].result = "failed"

----------------------------------------------------------------------------
(* Properties of the breaker under concurrent calls (SpecCall) *)

\* C28: OPEN is left only through the recovery timeout: whatever the calls
\* in flight do, no step takes a key stored OPEN to CLOSED; a key that is
\* OPEN becomes HALF_OPEN first.
C28_OpenLeftOnlyThroughHalfOpen ==
    [][\A key \in Engines :
          StateOf(key) = OPEN => DictGet(states', key, CLOSED) # CLOSED]_vars

----------------------------------------------------------------------------
(* Properties of the stored state and the count (Spec) *)

\* C29: in every reachable state the stored state of a key and its count
\* agree: the key is CLOSED exactly when its consecutive failure count is
\* below failure_threshold, and a HALF_OPEN key has a count of at least
\* failure_threshold.
C29_StateAgreesWithCount ==
    \A engine \in Engines :
        /\ StateOf(engine) = CLOSED <=> CountOf(engine) < failure_threshold
        /\ StateOf(engine) = HALF_OPEN => CountOf(engine) >= failure_threshold

\* One key is HALF_OPEN for the second time, after a probe that failed, while
\* the other is CLOSED one failure short of the threshold.
C29_Witness ==
    /\ \E engine \in Engines :
          StateOf(engine) = HALF_OPEN /\ CountOf(engine) = failure_threshold + 1
    /\ \E engine \in Engines :
          StateOf(engine) = CLOSED /\ CountOf(engine) = failure_threshold - 1

----------------------------------------------------------------------------
(* Properties of the audit writes and the breaker (SpecPipe) *)

\* C30: the audit writes go through the circuit breaker. A write that ends
\* in a transport failure, after the response of the request was fixed,
\* raises the count of its service by one; a write to a service whose
\* breaker is OPEN (recovery timeout not elapsed) is dropped: no request is
\* sent, the breaker is left as it is and the task goes on to its next
\* write; and in either case the response is the one the route returned.
C30_AuditWritesUseBreaker ==
    /\ [][\A net \in PipeNet :
             (net.kind # "response" /\ AuditSettle(net))
                 => /\ pc = "returned"
                    /\ DictGet(failure_counts', audit.step, 0) = CountOf(audit.step) + 1
                    /\ response' = response]_vars
    /\ [][(AuditIssue /\ StateOf(audit.step) = OPEN
              /\ now - LastOf(audit.step) <= recovery_timeout)
            => /\ ~call_log'[Len(call_log')].sent
               /\ call_log'[Len(call_log')].key = audit.step
               /\ UNCHANGED cbVars
               /\ audit' = [audit EXCEPT !.step = AuditNext(audit.step, FALSE)]
               /\ response' = response]_vars
    /\ [](audit # NoAudit
            => response = add_trace_id(ResponseOf(pipeline, Handler), locals["request_id"]))

\* The write to raw_data_store, whose breaker was OPEN, has been dropped,
\* and the write to analytics_warehouse has failed and been counted, after
\* the route had returned.
C30_Witness ==
    /\ pc = "returned"
    /\ audit.step = "done"
    /\ StateOf("raw_data_store") = OPEN
    /\ Len(AuditEntries) = 2
    /\ ~AuditEntries[1].sent
    /\ AuditEntries[2].sent /\ AuditEntries[2].result = "failed"
    /\ CountOf("analytics_warehouse") = 1
    /\ StateOf("analytics_warehouse") = CLOSED
    /\ response.http_status = 200

====
